---- MODULE Spec2Model ----
(***************************************************************************)
(* HushLane central API: the instance registry (register_instance), the   *)
(* license validator (validate_license) and the admin dashboard            *)
(* (master_admin_dashboard) of src/main.py and the offline key generator   *)
(* (create_license) of src/generate_license.py, all working on one SQLite  *)
(* database file.                                                          *)
(*                                                                         *)
(* Every handler opens its own connection.  A connection reads the        *)
(* committed database; its first INSERT/UPDATE opens a transaction and    *)
(* takes the database's single write lock, which it keeps until it        *)
(* commits or is closed (rolled back).  db is the committed database,     *)
(* tx the database as the lock holder sees it, lock the holder.           *)
(*                                                                         *)
(* The clock counts days; one Tick is TICK_DAYS days.  A nullable column   *)
(* or local is a set: {} is NULL / None, {x} holds x.                      *)
(***************************************************************************)
EXTENDS Integers, Sequences, FiniteSets, TLC

\* ---------------------------------------------------------------- bounds
MaxTime == 1         \* the clock ticks at most this many times
MaxOps == 3          \* at most this many requests are ever started

\* ------------------------------------------------------ program constants
LATEST_VERSION == "1.0.0"
DEFAULT_MONTHS == 12
DAYS_PER_MONTH == 30
RECENT_LIMIT == 10
TICK_DAYS == DAYS_PER_MONTH

\* ----------------------------------------------------------------- inputs
Procs == {"p1", "p2"}
NoProc == "none"
Customers == {"acme", "other"}
Versions == {"1.0.0", "1.1.0"}
Keys == {"HL-0A", "HL-0B"}
Statuses == {"active", "revoked", "suspended"}
\* --months of the command line: not given, 0 or 1
Omitted == {}
Durations == {Omitted, {0}, {1}}

Payloads ==
    { [url |-> "https://a", health |-> "healthy", timestamp |-> "t1",
       total_users |-> 1, total_messages |-> 10],
      [url |-> "https://b", health |-> "degraded", timestamp |-> "t2",
       total_users |-> 2, total_messages |-> 20] }

InstanceRegistration ==
    { [customer_id |-> c, version |-> v, url |-> pl.url, health |-> pl.health,
       timestamp |-> pl.timestamp, total_users |-> pl.total_users,
       total_messages |-> pl.total_messages] :
      c \in Customers, v \in Versions, pl \in Payloads }

\* app_version and timestamp of the request are never read by the handler
LicenseValidation ==
    { [license_key |-> k, customer_id |-> c] : k \in Keys, c \in Customers }

CustomerName(c) == IF c = "acme" THEN "Acme Corp" ELSE "Other Ltd"

CreateArgs ==
    { [customer_id |-> c, customer_name |-> CustomerName(c),
       plan |-> IF c = "acme" THEN "standard" ELSE "pro", months |-> d] :
      c \in Customers, d \in Durations }

\* ------------------------------------------------------------------ state
VARIABLES now, db, tx, lock, pc, req, local, resp, nops

vars == <<now, db, tx, lock, pc, req, local, resp, nops>>

Null == {}
Some(x) == {x}
Val(s) == CHOOSE x \in s : TRUE

NoReq == [op |-> "none"]

\* ----------------------------------------------------------------- schema
EmptyDb ==
    [customer_instances |-> {}, version_history |-> <<>>, licenses |-> {}]

\* a database file that earlier runs of the server and of the operator
\* scripts populated: acme is registered, was upgraded once and holds a
\* license in any status, perpetual or expiring on day 0
SeedDbs ==
    { [customer_instances |->
         { [customer_id |-> "acme", version |-> "1.1.0", url |-> "https://a",
            health_status |-> "healthy", last_heartbeat |-> "t1",
            first_seen |-> 0, total_users |-> 1, total_messages |-> 10] },
       version_history |->
         << [id |-> 1, customer_id |-> "acme", old_version |-> "1.0.0",
             new_version |-> "1.1.0", updated_at |-> 0] >>,
       licenses |->
         { [license_key |-> "HL-0A", customer_id |-> "acme",
            customer_name |-> CustomerName("acme"), plan |-> "standard",
            status |-> s, created_at |-> 0, expires_at |-> e,
            last_validated |-> Null] }] :
      s \in Statuses, e \in {Null, Some(0)} }

\* the state after init_db (CREATE TABLE IF NOT EXISTS) on the file d
InitWith(d) ==
    /\ now = 0
    /\ db = d
    /\ tx = db
    /\ lock = NoProc
    /\ pc = [p \in Procs |-> "idle"]
    /\ req = [p \in Procs |-> NoReq]
    /\ local = [p \in Procs |-> Null]
    /\ resp = [p \in Procs |-> Null]
    /\ nops = 0

\* a fresh database file
Init == InitWith(EmptyDb)

\* a fresh or a populated database file
InitLicense == \E d \in {EmptyDb} \cup SeedDbs : InitWith(d)

\* the version that acme runs after k upgrades and downgrades in turn
VersionAfter(k) == IF k % 2 = 0 THEN "1.0.0" ELSE "1.1.0"

\* a file on which acme has changed its version n times, twice a day, the
\* last time on day 0
UsedDb(n) ==
    [customer_instances |->
        { [customer_id |-> "acme", version |-> VersionAfter(n),
           url |-> "https://a", health_status |-> "healthy",
           last_heartbeat |-> "t1", first_seen |-> 0 - n,
           total_users |-> 1, total_messages |-> 10] },
     version_history |->
        [k \in 1..n |->
            [id |-> k, customer_id |-> "acme",
             old_version |-> VersionAfter(k - 1),
             new_version |-> VersionAfter(k),
             updated_at |-> (k - n) \div 2]],
     licenses |-> {}]

\* a fresh file, or one whose history is just below or above the LIMIT
InitDashboard ==
    \E d \in {EmptyDb, UsedDb(RECENT_LIMIT - 1), UsedDb(RECENT_LIMIT + 1)} :
        InitWith(d)

\* -------------------------------------------------------- store primitives
\* a write statement runs when no other connection holds the write lock
CanWrite(p) == lock \in {NoProc, p}

\* the database the statement of p works on
View(p) == IF lock = p THEN tx ELSE db

\* mutant: the connection is in autocommit mode, closing it keeps its writes
RollbackAutocommit(p) ==
    /\ tx' = View(p)
    /\ lock' = IF lock = p THEN NoProc ELSE lock
    /\ db' = View(p)

\* leaving "async with connect(...)" / dropping the connection without a
\* commit rolls the transaction back and frees the lock
Rollback(p) ==
    /\ tx' = IF lock = p THEN db ELSE tx
    /\ lock' = IF lock = p THEN NoProc ELSE lock
    /\ db' = db

Commit(p) ==
    /\ db' = View(p)
    /\ tx' = View(p)
    /\ lock' = IF lock = p THEN NoProc ELSE lock

Write(p, newdb) ==
    /\ CanWrite(p)
    /\ tx' = newdb
    /\ lock' = p
    /\ db' = db

Idle(p) == pc[p] = "idle"

Start(p, r, at) ==
    /\ Idle(p)
    /\ nops < MaxOps
    /\ nops' = nops + 1
    /\ pc' = [pc EXCEPT ![p] = at]
    /\ req' = [req EXCEPT ![p] = r]
    /\ local' = [local EXCEPT ![p] = Null]
    /\ resp' = [resp EXCEPT ![p] = Null]
    /\ UNCHANGED <<now, db, tx, lock>>

Finish(p, r) ==
    /\ pc' = [pc EXCEPT ![p] = "idle"]
    /\ resp' = [resp EXCEPT ![p] = Some(r)]
    /\ local' = [local EXCEPT ![p] = Null]
    /\ UNCHANGED <<now, req, nops>>

Goto(p, at) ==
    /\ pc' = [pc EXCEPT ![p] = at]
    /\ UNCHANGED <<now, req, resp, nops>>

Tick ==
    /\ now < MaxTime * TICK_DAYS
    /\ now' = now + TICK_DAYS
    /\ UNCHANGED <<db, tx, lock, pc, req, local, resp, nops>>

\* ------------------------------------------------- src/main.py: register
RegisterOk == [op |-> "register", code |-> 200, status |-> "success",
               message |-> "Instance registered"]
RegisterErr(msg) == [op |-> "register", code |-> 500, status |-> "error",
                     message |-> msg]
StoreError == "store error"
UniqueInstance == "UNIQUE constraint failed: customer_instances.customer_id"

\* SELECT version FROM customer_instances WHERE customer_id = ? ; fetchone()
SelectVersion(d, cid) ==
    LET rows == {i \in d.customer_instances : i.customer_id = cid}
    IN  IF rows = {} THEN Null ELSE Some((CHOOSE i \in rows : TRUE).version)

\* mutant: the row is replaced (INSERT OR REPLACE), first_seen defaults anew
UpdateInstanceReplace(d, r) ==
    [d EXCEPT !.customer_instances =
        {i \in @ : i.customer_id # r.customer_id} \cup
        { [customer_id |-> r.customer_id, version |-> r.version, url |-> r.url,
           health_status |-> r.health, last_heartbeat |-> r.timestamp,
           first_seen |-> now, total_users |-> r.total_users,
           total_messages |-> r.total_messages] }]

\* mutant: the gauges are added to the stored values
UpdateInstanceAccumulate(d, r) ==
    [d EXCEPT !.customer_instances =
        { IF i.customer_id = r.customer_id
             THEN [i EXCEPT !.version = r.version, !.url = r.url,
                            !.health_status = r.health,
                            !.last_heartbeat = r.timestamp,
                            !.total_users = @ + r.total_users,
                            !.total_messages = @ + r.total_messages]
             ELSE i : i \in d.customer_instances }]

\* mutant: the UPDATE without its WHERE clause
UpdateInstanceAll(d, r) ==
    [d EXCEPT !.customer_instances =
        { [i EXCEPT !.version = r.version, !.url = r.url,
                    !.health_status = r.health,
                    !.last_heartbeat = r.timestamp,
                    !.total_users = r.total_users,
                    !.total_messages = r.total_messages] :
          i \in d.customer_instances }]

\* UPDATE customer_instances SET version, url, health_status, last_heartbeat,
\* total_users, total_messages WHERE customer_id = ?
UpdateInstance(d, r) ==
    [d EXCEPT !.customer_instances =
        { IF i.customer_id = r.customer_id
             THEN [i EXCEPT !.version = r.version, !.url = r.url,
                            !.health_status = r.health,
                            !.last_heartbeat = r.timestamp,
                            !.total_users = r.total_users,
                            !.total_messages = r.total_messages]
             ELSE i : i \in d.customer_instances }]

\* mutant: old and new version bound in the wrong order
InsertHistorySwapped(d, cid, old, new, t) ==
    [d EXCEPT !.version_history =
        Append(@, [id |-> Len(@) + 1, customer_id |-> cid, old_version |-> new,
                   new_version |-> old, updated_at |-> t])]

\* INSERT INTO version_history (customer_id, old_version, new_version);
\* id is AUTOINCREMENT, updated_at defaults to CURRENT_TIMESTAMP
InsertHistory(d, cid, old, new, t) ==
    [d EXCEPT !.version_history =
        Append(@, [id |-> Len(@) + 1, customer_id |-> cid, old_version |-> old,
                   new_version |-> new, updated_at |-> t])]

\* customer_id TEXT PRIMARY KEY
InstanceKeyFree(d, cid) ==
    \A i \in d.customer_instances : i.customer_id # cid

\* INSERT INTO customer_instances (...); first_seen defaults to
\* CURRENT_TIMESTAMP
InsertInstance(d, r, t) ==
    [d EXCEPT !.customer_instances = @ \cup
        { [customer_id |-> r.customer_id, version |-> r.version, url |-> r.url,
           health_status |-> r.health, last_heartbeat |-> r.timestamp,
           first_seen |-> t, total_users |-> r.total_users,
           total_messages |-> r.total_messages] }]

\* POST /instances/register arrives
Register(p) ==
    \E r \in InstanceRegistration :
        Start(p, [op |-> "register", body |-> r], "reg_select")

\* the lookup; "if row:" picks the branch
RegSelect(p) ==
    /\ pc[p] = "reg_select"
    /\ LET row == SelectVersion(db, req[p].body.customer_id)
       IN  /\ local' = [local EXCEPT ![p] = row]
           /\ Goto(p, IF row # Null THEN "reg_update" ELSE "reg_insert")
    /\ UNCHANGED <<db, tx, lock>>

\* mutant: the history INSERT runs in the place of the UPDATE
RegUpdateHistoryFirst(p) ==
    /\ pc[p] = "reg_update"
    /\ IF Val(local[p]) # req[p].body.version
          THEN /\ Write(p, InsertHistory(View(p), req[p].body.customer_id,
                                         Val(local[p]), req[p].body.version,
                                         now))
               /\ Goto(p, "reg_history")
          ELSE /\ Write(p, UpdateInstance(View(p), req[p].body))
               /\ Goto(p, "reg_commit")
    /\ UNCHANGED local

\* "if row:" branch, the UPDATE
RegUpdate(p) ==
    /\ pc[p] = "reg_update"
    /\ Write(p, UpdateInstance(View(p), req[p].body))
    /\ Goto(p, IF Val(local[p]) # req[p].body.version
                  THEN "reg_history" ELSE "reg_commit")
    /\ UNCHANGED local

\* "if old_version != registration.version:" the history INSERT
RegHistory(p) ==
    /\ pc[p] = "reg_history"
    /\ Write(p, InsertHistory(View(p), req[p].body.customer_id, Val(local[p]),
                              req[p].body.version, now))
    /\ Goto(p, "reg_commit")
    /\ UNCHANGED local

\* "else:" branch, the INSERT; a primary-key conflict raises IntegrityError,
\* which the handler's "except Exception" turns into HTTP 500
RegInsert(p) ==
    /\ pc[p] = "reg_insert"
    /\ CanWrite(p)
    /\ IF InstanceKeyFree(View(p), req[p].body.customer_id)
          THEN /\ Write(p, InsertInstance(View(p), req[p].body, now))
               /\ Goto(p, "reg_commit")
               /\ UNCHANGED local
          ELSE /\ Rollback(p)
               /\ Finish(p, RegisterErr(UniqueInstance))

\* await db.commit(); return success
RegCommit(p) ==
    /\ pc[p] = "reg_commit"
    /\ Commit(p)
    /\ Finish(p, RegisterOk)

\* any statement of the handler raises (database is locked, I/O error):
\* "except Exception" answers HTTP 500, the connection is closed
RegError(p) ==
    /\ pc[p] \in {"reg_select", "reg_update", "reg_history", "reg_insert",
                  "reg_commit"}
    /\ Rollback(p)
    /\ Finish(p, RegisterErr(StoreError))

\* what the write statements of a register_instance call whose lookup
\* returned old make of the database d at time t
CallEffect(d, r, old, t) ==
    IF old # Null
       THEN LET updated == UpdateInstance(d, r)
            IN  IF Val(old) # r.version
                   THEN InsertHistory(updated, r.customer_id, Val(old),
                                      r.version, t)
                   ELSE updated
       ELSE InsertInstance(d, r, t)

\* the statements of one register_instance call run on d with no other
\* connection in between, all at time t
RegisteredAlone(d, r, t) ==
    CallEffect(d, r, SelectVersion(d, r.customer_id), t)

\* ------------------------------------------------- src/main.py: validate
ValidateFail(code, err) ==
    [op |-> "validate", code |-> code, valid |-> FALSE, error |-> err,
     payload |-> Null]
ValidateOk(l) ==
    [op |-> "validate", code |-> 200, valid |-> TRUE, error |-> "",
     payload |-> Some([customer_name |-> l.customer_name, plan |-> l.plan,
                       expires_at |-> l.expires_at])]

\* SELECT * FROM licenses WHERE license_key = ? ; fetchone()
SelectLicense(d, key) ==
    LET rows == {l \in d.licenses : l.license_key = key}
    IN  IF rows = {} THEN Null ELSE Some(CHOOSE l \in rows : TRUE)

\* mutant: the expiry check left out
CheckLicenseNoExpiry(row, cid, t) ==
    IF row = Null THEN "INVALID_LICENSE"
    ELSE IF Val(row).status # "active" THEN "LICENSE_INACTIVE"
    ELSE IF Val(row).customer_id # cid THEN "CUSTOMER_MISMATCH"
    ELSE ""

\* mutant: the customer check moved in front of the status and expiry checks
CheckLicenseCustomerFirst(row, cid, t) ==
    IF row = Null THEN "INVALID_LICENSE"
    ELSE IF Val(row).customer_id # cid THEN "CUSTOMER_MISMATCH"
    ELSE IF Val(row).status # "active" THEN "LICENSE_INACTIVE"
    ELSE IF Val(row).expires_at # Null /\ t > Val(Val(row).expires_at)
         THEN "LICENSE_EXPIRED"
    ELSE ""

\* mutant: the comparison of the expiry check is reversed
CheckLicenseReversed(row, cid, t) ==
    IF row = Null THEN "INVALID_LICENSE"
    ELSE IF Val(row).status # "active" THEN "LICENSE_INACTIVE"
    ELSE IF Val(row).expires_at # Null /\ t < Val(Val(row).expires_at)
         THEN "LICENSE_EXPIRED"
    ELSE IF Val(row).customer_id # cid THEN "CUSTOMER_MISMATCH"
    ELSE ""

\* mutant: the license expires on the day of expires_at
CheckLicenseExpiresOnDay(row, cid, t) ==
    IF row = Null THEN "INVALID_LICENSE"
    ELSE IF Val(row).status # "active" THEN "LICENSE_INACTIVE"
    ELSE IF Val(row).expires_at # Null /\ t >= Val(Val(row).expires_at)
         THEN "LICENSE_EXPIRED"
    ELSE IF Val(row).customer_id # cid THEN "CUSTOMER_MISMATCH"
    ELSE ""

\* the four checks of the handler, in the order of the code; "" is a pass
CheckLicense(row, cid, t) ==
    IF row = Null THEN "INVALID_LICENSE"
    ELSE IF Val(row).status # "active" THEN "LICENSE_INACTIVE"
    ELSE IF Val(row).expires_at # Null /\ t > Val(Val(row).expires_at)
         THEN "LICENSE_EXPIRED"
    ELSE IF Val(row).customer_id # cid THEN "CUSTOMER_MISMATCH"
    ELSE ""

\* mutant: the UPDATE without its WHERE clause
UpdateLastValidatedAll(d, key, t) ==
    [d EXCEPT !.licenses =
        { [l EXCEPT !.last_validated = Some(t)] : l \in d.licenses }]

\* UPDATE licenses SET last_validated = ? WHERE license_key = ?
UpdateLastValidated(d, key, t) ==
    [d EXCEPT !.licenses =
        { IF l.license_key = key THEN [l EXCEPT !.last_validated = Some(t)]
                                 ELSE l : l \in d.licenses }]

\* POST /license/validate arrives
Validate(p) ==
    \E v \in LicenseValidation :
        Start(p, [op |-> "validate", body |-> v], "val_select")

\* the lookup and the checks that follow it without an await
ValSelect(p) ==
    /\ pc[p] = "val_select"
    /\ LET row == SelectLicense(db, req[p].body.license_key)
           err == CheckLicense(row, req[p].body.customer_id, now)
       IN  IF err # ""
              THEN Finish(p, ValidateFail(401, err))
              ELSE /\ local' = [local EXCEPT ![p] = row]
                   /\ Goto(p, "val_update")
    /\ UNCHANGED <<db, tx, lock>>

\* the UPDATE of last_validated
ValUpdate(p) ==
    /\ pc[p] = "val_update"
    /\ Write(p, UpdateLastValidated(View(p), req[p].body.license_key, now))
    /\ Goto(p, "val_commit")
    /\ UNCHANGED local

\* await db.commit(); return the success payload built from license_data
ValCommit(p) ==
    /\ pc[p] = "val_commit"
    /\ Commit(p)
    /\ Finish(p, ValidateOk(Val(local[p])))

\* any statement raises: "except Exception" answers HTTP 500 valid=false
ValError(p) ==
    /\ pc[p] \in {"val_select", "val_update", "val_commit"}
    /\ Rollback(p)
    /\ Finish(p, ValidateFail(500, "VALIDATION_ERROR"))

\* ------------------------------------- src/generate_license.py: create
CreateResult(key, err) == [op |-> "create", key |-> key, error |-> err]

\* mutant: --months declared with default=0
MonthsArgLifetime(d) == IF d = Omitted THEN 0 ELSE Val(d)

\* --months: default=12 when the option is not given
MonthsArg(d) == IF d = Omitted THEN DEFAULT_MONTHS ELSE Val(d)

\* main: months = None if args.months == 0 else args.months
MainMonths(m) == IF m = 0 THEN Null ELSE Some(m)

\* "if months:" expires_at = now + timedelta(days=months*30), else None
ExpiresAt(months, t) ==
    IF months # Null /\ Val(months) # 0
       THEN Some(t + Val(months) * DAYS_PER_MONTH)
       ELSE Null

\* SELECT license_key FROM licenses WHERE customer_id = ? ; fetchone()
SelectKeyOfCustomer(d, cid) ==
    LET rows == {l \in d.licenses : l.customer_id = cid}
    IN  IF rows = {} THEN Null
        ELSE Some((CHOOSE l \in rows : TRUE).license_key)

\* mutant: customer_id is not declared UNIQUE
LicenseKeyFreeOnly(d, key, cid) ==
    \A l \in d.licenses : l.license_key # key

\* mutant: license_key is not the primary key
LicenseCustomerFreeOnly(d, key, cid) ==
    \A l \in d.licenses : l.customer_id # cid

\* license_key TEXT PRIMARY KEY, customer_id TEXT NOT NULL UNIQUE
LicenseKeysFree(d, key, cid) ==
    \A l \in d.licenses : l.license_key # key /\ l.customer_id # cid

\* INSERT INTO licenses (license_key, customer_id, customer_name, plan,
\* status, expires_at) VALUES (?, ?, ?, ?, 'active', ?)
InsertLicense(d, key, a, exp, t) ==
    [d EXCEPT !.licenses = @ \cup
        { [license_key |-> key, customer_id |-> a.customer_id,
           customer_name |-> a.customer_name, plan |-> a.plan,
           status |-> "active", created_at |-> t, expires_at |-> exp,
           last_validated |-> Null] }]

\* the operator runs "generate_license.py create ..."
Create(p) ==
    \E a \in CreateArgs :
        Start(p, [op |-> "create", body |-> a], "cre_select")

\* the existence check
CreateSelect(p) ==
    /\ pc[p] = "cre_select"
    /\ IF SelectKeyOfCustomer(db, req[p].body.customer_id) # Null
          THEN Finish(p, CreateResult(Null, "DuplicateCustomer"))
          ELSE /\ Goto(p, "cre_insert")
               /\ UNCHANGED local
    /\ UNCHANGED <<db, tx, lock>>

\* generate_license_key(), the expiry and the INSERT; a key or customer
\* conflict raises sqlite3.IntegrityError and the function returns None
CreateInsert(p) ==
    /\ pc[p] = "cre_insert"
    /\ CanWrite(p)
    /\ \E key \in Keys :
        LET a == req[p].body
            exp == ExpiresAt(MainMonths(MonthsArg(a.months)), now)
        IN  IF LicenseKeysFree(View(p), key, a.customer_id)
               THEN /\ Write(p, InsertLicense(View(p), key, a, exp, now))
                    /\ local' = [local EXCEPT ![p] = Some(key)]
                    /\ Goto(p, "cre_commit")
               ELSE /\ Rollback(p)
                    /\ Finish(p, CreateResult(Null, "IntegrityError"))

\* conn.commit(); return license_key
CreateCommit(p) ==
    /\ pc[p] = "cre_commit"
    /\ Commit(p)
    /\ Finish(p, CreateResult(local[p], ""))

\* sqlite3.Error in any statement: the function prints it and returns None
CreateError(p) ==
    /\ pc[p] \in {"cre_select", "cre_insert", "cre_commit"}
    /\ Rollback(p)
    /\ Finish(p, CreateResult(Null, StoreError))

\* ------------------------------------------------ src/main.py: dashboard
\* the context handed to the template; instances and recent_updates are
\* kept as sets: their order is that of last_heartbeat and of updated_at,
\* descending, and open among equal values
DashboardView(st, updates) ==
    [op |-> "dashboard", code |-> 200, instances |-> st.instances,
     total_customers |-> st.total_customers,
     healthy_count |-> st.healthy_count,
     outdated_count |-> st.outdated_count,
     recent_updates |-> updates, latest_version |-> LATEST_VERSION]

\* the handler catches nothing: an exception is answered by the framework
DashboardErr == [op |-> "dashboard", code |-> 500]

\* SELECT * FROM customer_instances and the three statistics
InstanceStats(d) ==
    [instances |-> d.customer_instances,
     total_customers |-> Cardinality(d.customer_instances),
     healthy_count |->
        Cardinality({i \in d.customer_instances :
                        i.health_status = "healthy"}),
     outdated_count |->
        Cardinality({i \in d.customer_instances :
                        i.version # LATEST_VERSION})]

Entries(h) == {h[k] : k \in DOMAIN h}

\* mutant: ORDER BY updated_at ASC
RecentUpdatesAscending(h) ==
    LET E == Entries(h)
        n == IF Cardinality(E) < RECENT_LIMIT THEN Cardinality(E)
             ELSE RECENT_LIMIT
        Below(c) == {e \in E : e.updated_at < c}
        At(c) == {e \in E : e.updated_at = c}
    IN  IF n = 0 THEN {{}}
        ELSE UNION { {Below(c) \cup T :
                        T \in {U \in SUBSET At(c) :
                                 Cardinality(U) = n - Cardinality(Below(c))}} :
                     c \in {e.updated_at : e \in E} }

\* SELECT * FROM version_history ORDER BY updated_at DESC LIMIT 10: the
\* results the query can give; entries of the same updated_at at the cut
\* are taken in any order
RecentUpdates(h) ==
    LET E == Entries(h)
        n == IF Cardinality(E) < RECENT_LIMIT THEN Cardinality(E)
             ELSE RECENT_LIMIT
        Above(c) == {e \in E : e.updated_at > c}
        At(c) == {e \in E : e.updated_at = c}
    IN  IF n = 0 THEN {{}}
        ELSE UNION { {Above(c) \cup T :
                        T \in {U \in SUBSET At(c) :
                                 Cardinality(U) = n - Cardinality(Above(c))}} :
                     c \in {e.updated_at : e \in E} }

\* GET /admin with the admin's credentials
Dashboard(p) == Start(p, [op |-> "dashboard"], "dash_instances")

\* the instance query and the statistics
DashInstances(p) ==
    /\ pc[p] = "dash_instances"
    /\ local' = [local EXCEPT ![p] = Some(InstanceStats(db))]
    /\ Goto(p, "dash_updates")
    /\ UNCHANGED <<db, tx, lock>>

\* the history query, the end of the connection and the response
DashUpdates(p) ==
    /\ pc[p] = "dash_updates"
    /\ \E updates \in RecentUpdates(db.version_history) :
          Finish(p, DashboardView(Val(local[p]), updates))
    /\ Rollback(p)

\* a query raises
DashError(p) ==
    /\ pc[p] \in {"dash_instances", "dash_updates"}
    /\ Rollback(p)
    /\ Finish(p, DashboardErr)

\* ---------------------------------------------------------- specification
Next ==
    \/ Tick
    \/ \E p \in Procs :
        \/ Register(p) \/ RegSelect(p) \/ RegUpdate(p) \/ RegHistory(p)
        \/ RegInsert(p) \/ RegCommit(p) \/ RegError(p)
        \/ Validate(p) \/ ValSelect(p) \/ ValUpdate(p) \/ ValCommit(p)
        \/ ValError(p)
        \/ Create(p) \/ CreateSelect(p) \/ CreateInsert(p) \/ CreateCommit(p)
        \/ CreateError(p)

\* the three operations that write, on a fresh file
Spec == Init /\ [][Next]_vars

\* the registry alone
NextRegistry ==
    \/ Tick
    \/ \E p \in Procs :
        \/ Register(p) \/ RegSelect(p) \/ RegUpdate(p) \/ RegHistory(p)
        \/ RegInsert(p) \/ RegCommit(p) \/ RegError(p)

SpecRegistry == Init /\ [][NextRegistry]_vars

\* the license table alone
NextLicense ==
    \/ Tick
    \/ \E p \in Procs :
        \/ Validate(p) \/ ValSelect(p) \/ ValUpdate(p) \/ ValCommit(p)
        \/ ValError(p)
        \/ Create(p) \/ CreateSelect(p) \/ CreateInsert(p) \/ CreateCommit(p)
        \/ CreateError(p)

SpecLicense == InitLicense /\ [][NextLicense]_vars

\* the dashboard beside the registrations, on a fresh or a long-used file
NextDashboard ==
    \/ Tick
    \/ \E p \in Procs :
        \/ Register(p) \/ RegSelect(p) \/ RegUpdate(p) \/ RegHistory(p)
        \/ RegInsert(p) \/ RegCommit(p) \/ RegError(p)
        \/ Dashboard(p) \/ DashInstances(p) \/ DashUpdates(p)
        \/ DashError(p)

SpecDashboard == InitDashboard /\ [][NextDashboard]_vars

\* ------------------------------------------------------------- properties
\* p takes a step of its handler
Steps(p) == pc'[p] # pc[p]

\* p answers in this step
Answers(p) == resp[p] = Null /\ resp'[p] # Null

ValidateRaised(p) == resp'[p] = Some(ValidateFail(500, "VALIDATION_ERROR"))

LicensesOfKey(d, key) == {l \in d.licenses : l.license_key = key}

\* the four checks of the validation protocol, each on its own
KeyNotFound(d, v) == LicensesOfKey(d, v.license_key) = {}
NotActive(d, v) ==
    \E l \in LicensesOfKey(d, v.license_key) : l.status # "active"
Expired(d, v, t) ==
    \E l \in LicensesOfKey(d, v.license_key) : \E e \in l.expires_at : t > e
WrongCustomer(d, v) ==
    \E l \in LicensesOfKey(d, v.license_key) : l.customer_id # v.customer_id

CheckOrder(d, v, t) ==
    << [failed |-> KeyNotFound(d, v), error |-> "INVALID_LICENSE"],
       [failed |-> NotActive(d, v), error |-> "LICENSE_INACTIVE"],
       [failed |-> Expired(d, v, t), error |-> "LICENSE_EXPIRED"],
       [failed |-> WrongCustomer(d, v), error |-> "CUSTOMER_MISMATCH"] >>

FirstFailing(d, v, t) ==
    LET checks == CheckOrder(d, v, t)
        failing == {i \in DOMAIN checks : checks[i].failed}
    IN  IF failing = {} THEN ""
        ELSE checks[CHOOSE i \in failing : \A j \in failing : i <= j].error

\* C1: the outcome of the checks of a validate call is that of the first
\* failing check in the order not found, not active, expired, wrong
\* customer: the call is rejected with HTTP 401 and that check's error code,
\* and it goes on to the last_validated update exactly when no check fails.
\* In particular a revoked or suspended license is answered
\* LICENSE_INACTIVE and an expired active one LICENSE_EXPIRED, whatever the
\* other columns and the supplied customer_id are.
C1_FirstFailingCheck ==
    [][\A p \in Procs :
        (pc[p] = "val_select" /\ Steps(p) /\ ~ValidateRaised(p)) =>
            LET v == req[p].body
                first == FirstFailing(db, v, now)
            IN  /\ IF first = ""
                      THEN pc'[p] = "val_update" /\ resp'[p] = Null
                      ELSE /\ pc'[p] = "idle"
                           /\ resp'[p] = Some(ValidateFail(401, first))
                /\ NotActive(db, v) =>
                        resp'[p] = Some(ValidateFail(401, "LICENSE_INACTIVE"))
                /\ (~NotActive(db, v) /\ Expired(db, v, now)) =>
                        resp'[p] = Some(ValidateFail(401, "LICENSE_EXPIRED"))]_vars

\* a revoked license whose expiry has passed was validated under another
\* customer's id and answered LICENSE_INACTIVE
C1_Witness ==
    \E p \in Procs :
        /\ pc[p] = "idle" /\ req[p].op = "validate"
        /\ resp[p] = Some(ValidateFail(401, "LICENSE_INACTIVE"))
        /\ \E l \in LicensesOfKey(db, req[p].body.license_key) :
            /\ l.status = "revoked"
            /\ l.expires_at = Some(0)
            /\ l.customer_id # req[p].body.customer_id
        /\ now > 0

\* the license a validate request names passes every check at time t
PassesAt(l, v, t) ==
    /\ l.license_key = v.license_key
    /\ l.status = "active"
    /\ l.expires_at = Null \/ \A e \in l.expires_at : ~(e < t)
    /\ l.customer_id = v.customer_id

IsValidAnswer(r) == r # Null /\ \A x \in r : x.op = "validate" /\ x.valid

\* C2: validate answers valid=true only for a call whose checks found a
\* license with the supplied key that is active, not expired at the time of
\* the check and bound to the supplied customer_id; the answer is given by
\* the commit of that call, for a license that is still stored, active and
\* bound to that customer, and it carries the customer_name, plan and
\* expires_at of that license.
C2_ValidOnlyIfAllChecksPass ==
    [][\A p \in Procs :
        /\ (Steps(p) /\ pc'[p] = "val_update") =>
              /\ pc[p] = "val_select"
              /\ \E l \in db.licenses :
                    PassesAt(l, req[p].body, now) /\ local'[p] = Some(l)
        /\ (Steps(p) /\ pc'[p] = "val_commit") =>
              pc[p] = "val_update" /\ local'[p] = local[p]
        /\ (Answers(p) /\ IsValidAnswer(resp'[p])) =>
              /\ pc[p] = "val_commit"
              /\ \E l \in db'.licenses :
                    /\ l.license_key = req[p].body.license_key
                    /\ l.status = "active"
                    /\ l.customer_id = req[p].body.customer_id
                    /\ \E o \in local[p] : l.expires_at = o.expires_at
                    /\ Val(resp'[p]).code = 200
                    /\ Val(resp'[p]).payload =
                          Some([customer_name |-> l.customer_name,
                                plan |-> l.plan,
                                expires_at |-> l.expires_at])]_vars

\* a validate call for an active license expiring today was answered
\* valid=true with the stored name, plan and expiry
C2_Witness ==
    \E p \in Procs :
        /\ pc[p] = "idle" /\ req[p].op = "validate"
        /\ IsValidAnswer(resp[p])
        /\ \E l \in LicensesOfKey(db, req[p].body.license_key) :
            /\ l.expires_at # Null
            /\ l.last_validated # Null
            /\ Val(resp[p]).payload =
                  Some([customer_name |-> l.customer_name, plan |-> l.plan,
                        expires_at |-> l.expires_at])

HasLicense(d, cid) == \E l \in d.licenses : l.customer_id = cid

\* C5: a createLicense call for a customer_id that has a license returns
\* no key and leaves the licenses table, and the whole store, unchanged in
\* every step it takes.
C5_DuplicateCustomerRejected ==
    [][\A p \in Procs :
        (req[p].op = "create" /\ Steps(p) /\ pc[p] # "idle"
            /\ HasLicense(db, req[p].body.customer_id)) =>
                /\ db' = db
                /\ pc'[p] = "idle"
                /\ \E r \in resp'[p] : r.op = "create" /\ r.key = Null]_vars

\* createLicense found the customer's license and returned no key
C5_Witness ==
    \E p \in Procs :
        /\ pc[p] = "idle" /\ req[p].op = "create"
        /\ resp[p] = Some(CreateResult(Null, "DuplicateCustomer"))
        /\ HasLicense(db, req[p].body.customer_id)

UniqueLicenses(d) ==
    \A l1, l2 \in d.licenses :
        (l1.customer_id = l2.customer_id \/ l1.license_key = l2.license_key)
            => l1 = l2

\* C6: in every reachable state there is at most one license per
\* customer_id and per license_key, and in every step each stored license
\* keeps its license_key and customer_id.
C6_LicenseKeysUniqueImmutable ==
    [][/\ UniqueLicenses(db) /\ UniqueLicenses(db')
       /\ \A l \in db.licenses : \E m \in db'.licenses :
            m.license_key = l.license_key /\ m.customer_id = l.customer_id]_vars

\* two licenses are stored and a createLicense call that got past the
\* existence check was stopped by a key or customer conflict
C6_Witness ==
    /\ Cardinality(db.licenses) = 2
    /\ \E p \in Procs :
        /\ req[p].op = "create"
        /\ resp[p] = Some(CreateResult(Null, "IntegrityError"))

\* d2 is d with last_validated of the licenses of key set to t
OnlyLastValidatedSet(d, d2, key, t) ==
    /\ d2.customer_instances = d.customer_instances
    /\ d2.version_history = d.version_history
    /\ {l \in d2.licenses : l.license_key # key}
          = {l \in d.licenses : l.license_key # key}
    /\ \A l \in LicensesOfKey(d2, key) :
          /\ l.last_validated = Some(t)
          /\ \E o \in LicensesOfKey(d, key) :
                [o EXCEPT !.last_validated = l.last_validated] = l
    /\ Cardinality(d2.licenses) = Cardinality(d.licenses)

\* C7: a validate call changes the stored data in its commit only, which
\* sets last_validated of the validated license to the time of the call's
\* update statement and changes nothing else; a call answered
\* INVALID_LICENSE, LICENSE_INACTIVE, LICENSE_EXPIRED or CUSTOMER_MISMATCH
\* leaves the whole store unchanged.
C7_ValidateFrame ==
    [][\A p \in Procs :
        (req[p].op = "validate" /\ Steps(p) /\ pc[p] # "idle") =>
            /\ (pc[p] = "val_update" /\ pc'[p] = "val_commit") =>
                  OnlyLastValidatedSet(db, tx', req[p].body.license_key, now)
            /\ IF IsValidAnswer(resp'[p])
                  THEN /\ db' = tx
                       /\ \E t \in 0..now :
                            OnlyLastValidatedSet(db, db',
                                                 req[p].body.license_key, t)
                  ELSE db' = db]_vars

\* a successful validate call stamped one of two stored licenses
C7_Witness ==
    \E p \in Procs :
        /\ pc[p] = "idle" /\ req[p].op = "validate"
        /\ IsValidAnswer(resp[p])
        /\ Cardinality(db.licenses) = 2
        /\ \E l \in db.licenses : l.last_validated = Null
        /\ \E l \in db.licenses : l.last_validated # Null

\* C8 as claimed: once the four checks of a validate call have passed, the
\* call is answered valid=true with the payload, also when the write of
\* last_validated fails.
C8_ResultIndependentOfWrite ==
    [][\A p \in Procs :
        (pc[p] \in {"val_update", "val_commit"} /\ Answers(p)) =>
            resp'[p] = Some(ValidateOk(Val(local[p])))]_vars

\* the history entries a step appends
Appended == SubSeq(db'.version_history, Len(db.version_history) + 1,
                   Len(db'.version_history))

OfCustomer(h, cid) == SelectSeq(h, LAMBDA e : e.customer_id = cid)

Transition(e) == <<e.customer_id, e.old_version, e.new_version>>

\* C3 as claimed: also when registrations of one customer_id interleave,
\* a step that changes the stored version of a customer's instance appends
\* exactly one history entry, from the version stored before the step to the
\* one stored after it, and no other step appends an entry for the customer.
C3_OneEntryPerTransition ==
    [][\A c \in Customers :
        LET old == SelectVersion(db, c)
            new == SelectVersion(db', c)
            added == OfCustomer(Appended, c)
        IN  IF old # Null /\ new # old
               THEN /\ Len(added) = 1
                    /\ Transition(added[1]) = <<c, Val(old), Val(new)>>
               ELSE added = <<>>]_vars

IsRegisterOk(r) == r = Some(RegisterOk)

\* C4: a registerInstance call that finds the instance stored leaves the
\* history as it is when it supplies the version its lookup found, and when
\* it supplies another version its commit appends exactly one entry, from
\* the version the lookup found to the supplied one; no other step of the
\* call changes the stored history.
C4_HistoryOnVersionChange ==
    [][\A p \in Procs :
        (req[p].op = "register" /\ Steps(p) /\ pc[p] # "idle") =>
            /\ pc'[p] = "reg_update" =>
                  /\ local'[p] # Null
                  /\ local'[p] = SelectVersion(db, req[p].body.customer_id)
            /\ pc[p] \in {"reg_update", "reg_history"} =>
                  local'[p] = local[p] \/ pc'[p] = "idle"
            /\ IF IsRegisterOk(resp'[p]) /\ local[p] # Null
                  THEN IF Val(local[p]) = req[p].body.version
                          THEN Appended = <<>>
                          ELSE /\ Len(Appended) = 1
                               /\ Transition(Appended[1]) =
                                     <<req[p].body.customer_id, Val(local[p]),
                                       req[p].body.version>>
                  ELSE ~IsRegisterOk(resp'[p]) => Appended = <<>>]_vars

\* acme, registered with 1.0.0, registered again with 1.1.0: one entry
C4_Witness ==
    \E p \in Procs :
        /\ pc[p] = "idle" /\ req[p].op = "register"
        /\ IsRegisterOk(resp[p])
        /\ req[p].body.customer_id = "acme" /\ req[p].body.version = "1.1.0"
        /\ Len(db.version_history) = 1
        /\ Transition(db.version_history[1]) = <<"acme", "1.0.0", "1.1.0">>

\* C9 as claimed: no registerInstance call is answered with a uniqueness
\* conflict on customer_id.
C9_NoUniquenessConflict ==
    \A p \in Procs : resp[p] # Some(RegisterErr(UniqueInstance))

\* C10: in every step each stored instance row stays stored, as the one row
\* of its customer_id, with its first_seen unchanged.
C10_InstanceKeptFirstSeenFixed ==
    [][\A i \in db.customer_instances :
        /\ \E j \in db'.customer_instances : j.customer_id = i.customer_id
        /\ \A j \in db'.customer_instances :
              j.customer_id = i.customer_id => j.first_seen = i.first_seen]_vars

\* an instance first seen on day 0 was registered again with a new version
\* on a later day, and a license was created and validated meanwhile
C10_Witness ==
    /\ now > 0
    /\ \E i \in db.customer_instances :
          /\ i.first_seen = 0
          /\ \E k \in DOMAIN db.version_history :
                /\ db.version_history[k].customer_id = i.customer_id
                /\ db.version_history[k].updated_at > 0
    /\ \E p \in Procs : req[p].op \in {"create", "validate"} /\ resp[p] # Null

\* the times the clock can show
Times == {k * TICK_DAYS : k \in 0..MaxTime}

\* the instance row i holds the values the registration r supplies
HoldsSupplied(i, r) ==
    /\ i.customer_id = r.customer_id
    /\ i.version = r.version
    /\ i.url = r.url
    /\ i.health_status = r.health
    /\ i.last_heartbeat = r.timestamp
    /\ i.total_users = r.total_users
    /\ i.total_messages = r.total_messages

InstancesOf(d, cid) == {i \in d.customer_instances : i.customer_id = cid}

\* C11: when a registerInstance call succeeds, the stored instance of its
\* customer_id holds exactly the version, url, health, heartbeat and gauges
\* the call supplied; and when no other registration of the customer was
\* committed since the call's lookup, the store it leaves is the one its
\* statements produce when run alone, on which running the same call once
\* more, at any time, changes neither the instance row nor the history.
C11_IdempotentUpsert ==
    [][\A p \in Procs :
        (req[p].op = "register" /\ Answers(p) /\ IsRegisterOk(resp'[p])) =>
            LET r == req[p].body
            IN  /\ InstancesOf(db', r.customer_id) # {}
                /\ \A i \in InstancesOf(db', r.customer_id) : HoldsSupplied(i, r)
                /\ local[p] = SelectVersion(db, r.customer_id) =>
                      /\ \E t \in Times : db' = RegisteredAlone(db, r, t)
                      /\ \A t \in Times : RegisteredAlone(db', r, t) = db']_vars

\* acme, stored with one user and ten messages, was registered with two users
\* and twenty messages by two calls in a row: the row holds two and twenty
C11_Witness ==
    /\ \A p \in Procs :
          /\ pc[p] = "idle" /\ req[p].op = "register"
          /\ IsRegisterOk(resp[p])
          /\ req[p].body.customer_id = "acme"
          /\ req[p].body.total_users = 2
    /\ req["p1"] = req["p2"]
    /\ \A i \in InstancesOf(db, "acme") :
          i.total_users = 2 /\ i.total_messages = 20
    /\ Len(db.version_history) = 1

\* every stored history entry stays where it is, as it is
HistoryKept ==
    /\ Len(db'.version_history) >= Len(db.version_history)
    /\ SubSeq(db'.version_history, 1, Len(db.version_history))
          = db.version_history

\* an entry is appended only by the commit of a successful register call
\* that found its instance stored, and never by any other step
WrittenByRegisterOfStored ==
    Appended # <<>> =>
        \E p \in Procs :
            /\ req[p].op = "register" /\ pc[p] = "reg_commit"
            /\ IsRegisterOk(resp'[p])
            /\ local[p] # Null
            /\ Val(local[p]) # req[p].body.version
            /\ \A e \in {Appended[k] : k \in DOMAIN Appended} :
                  e.customer_id = req[p].body.customer_id

\* the step that appends entries changes the stored version of their customer
WrittenOnVersionChange ==
    \A k \in DOMAIN Appended :
        LET c == Appended[k].customer_id
        IN  /\ SelectVersion(db, c) # Null
            /\ SelectVersion(db', c) # SelectVersion(db, c)

\* the part of C12 that the code keeps: the history only grows, and only by
\* register calls on stored instances that supply another version than
\* their lookup found
C12_AppendOnlyByRegister ==
    [][HistoryKept /\ WrittenByRegisterOfStored]_vars

\* C12 as claimed: no step modifies or removes a stored history entry, and
\* an entry is appended only by a registerInstance call on an already
\* stored instance, in a step that changes the stored version of that
\* instance; first registrations, createLicense and validate append none.
C12_AppendOnlyOnVersionChange ==
    [][HistoryKept /\ WrittenByRegisterOfStored /\ WrittenOnVersionChange]_vars

\* the stored data of one customer's registry: its instance rows and its
\* history entries without their row ids
Registry(d, cid) ==
    [instances |-> InstancesOf(d, cid),
     history |-> [k \in DOMAIN OfCustomer(d.version_history, cid) |->
                    LET e == OfCustomer(d.version_history, cid)[k]
                    IN  [customer_id |-> e.customer_id,
                         old_version |-> e.old_version,
                         new_version |-> e.new_version,
                         updated_at |-> e.updated_at]]]

\* d without the registry data of every customer but cid
OnlyCustomer(d, cid) ==
    [d EXCEPT !.customer_instances = InstancesOf(d, cid),
              !.version_history = OfCustomer(d.version_history, cid)]

\* C13: every step of a registerInstance call for customer A leaves the
\* instance rows and history entries of every other customer and all
\* licenses unchanged; its lookup returns what it returns on a store
\* holding A's registry data alone, and its commit leaves A's row and
\* history as its statements leave them on such a store - so A's final row
\* and history are those of A's registrations run without B's.
C13_CustomersIndependent ==
    [][\A p \in Procs :
        (req[p].op = "register" /\ Steps(p) /\ pc[p] # "idle") =>
            LET r == req[p].body
                a == r.customer_id
            IN  /\ \A b \in Customers \ {a} :
                      Registry(db', b) = Registry(db, b)
                /\ db'.licenses = db.licenses
                /\ pc[p] = "reg_select" =>
                      \/ local'[p] = SelectVersion(OnlyCustomer(db, a), a)
                      \/ pc'[p] = "idle"
                /\ IsRegisterOk(resp'[p]) =>
                      \E t \in Times :
                          Registry(db', a) =
                              Registry(CallEffect(OnlyCustomer(db, a), r,
                                                  local[p], t), a)]_vars

\* other was upgraded on day 0 and acme registered on a later day: other's
\* row and history entry are still there
C13_Witness ==
    /\ \E i \in InstancesOf(db, "acme") : i.first_seen > 0
    /\ InstancesOf(db, "other") # {}
    /\ \E k \in DOMAIN db.version_history :
          /\ db.version_history[k].customer_id = "other"
          /\ db.version_history[k].updated_at = 0
    /\ \E p \in Procs :
          /\ pc[p] = "idle" /\ req[p].op = "register"
          /\ req[p].body.customer_id = "acme" /\ IsRegisterOk(resp[p])

\* p's create call commits and returns a key
CreateReturnsKey(p) ==
    /\ req[p].op = "create" /\ Answers(p)
    /\ resp'[p] # Null /\ Val(resp'[p]).op = "create"
    /\ Val(resp'[p]).key # Null

\* the commit of p's create call persists exactly one new license, active,
\* for the customer of the call, under the returned key, with the expiry
\* that Expiry gives for the duration argument and the creation day; every
\* other row of the store stays
CreatesOneLicense(p, Expiry(_, _)) ==
    LET a == req[p].body
        new == db'.licenses \ db.licenses
    IN  /\ db.licenses \subseteq db'.licenses
        /\ Cardinality(new) = 1
        /\ db'.customer_instances = db.customer_instances
        /\ db'.version_history = db.version_history
        /\ \A l \in new :
              /\ l.license_key = Val(Val(resp'[p]).key)
              /\ l.customer_id = a.customer_id
              /\ l.status = "active"
              /\ l.last_validated = Null
              /\ l.created_at \in Times
              /\ l.expires_at = Expiry(a.months, l.created_at)

\* the expiry as claimed: none when the duration is omitted or 0
ExpiryOmittedIsNull(months, t) ==
    IF months = Omitted \/ months = Some(0) THEN Null
    ELSE Some(t + Val(months) * 30)

\* the expiry as coded: an omitted duration is 12 months, only 0 is none
ExpiryOmittedIsYear(months, t) ==
    IF months = Some(0) THEN Null
    ELSE IF months = Omitted THEN Some(t + 12 * 30)
    ELSE Some(t + Val(months) * 30)

\* C14 as claimed: a successful createLicense persists exactly one new
\* active license whose expires_at is now + durationMonths * 30 days, and
\* null when the duration is omitted or 0, and returns that row's key.
C14_ExpiryNullWhenOmitted ==
    [][\A p \in Procs :
        CreateReturnsKey(p) => CreatesOneLicense(p, ExpiryOmittedIsNull)]_vars

\* C14 amended: a successful createLicense persists exactly one new active
\* license whose expires_at is now + durationMonths * 30 days, null only
\* when the duration is given as 0, and now + 360 days (the default of 12
\* months) when the duration is omitted; it returns that row's key.
C14_ExpiryDefaultsToYear ==
    [][\A p \in Procs :
        CreateReturnsKey(p) => CreatesOneLicense(p, ExpiryOmittedIsYear)]_vars

\* a create call without a duration has returned the key of a stored
\* license that expires 360 days after its creation
C14_Witness ==
    \E p \in Procs :
        /\ pc[p] = "idle" /\ req[p].op = "create"
        /\ req[p].body.months = Omitted
        /\ resp[p] # Null /\ Val(resp[p]).op = "create"
        /\ Val(resp[p]).key # Null
        /\ \E l \in db.licenses :
              /\ l.license_key = Val(Val(resp[p]).key)
              /\ l.customer_id = req[p].body.customer_id
              /\ l.expires_at = Some(l.created_at + 360)

\* every entry of the set is at least as recent as every other entry of h
MostRecentOf(updates, h) ==
    /\ updates \subseteq Entries(h)
    /\ \A e \in updates : \A f \in Entries(h) \ updates :
          e.updated_at >= f.updated_at

\* C15: no step of a dashboard request changes the store; the counters it
\* reports are the number of instance rows, of rows with health_status
\* "healthy" and of rows whose version is not the latest version, in the
\* store state its instance query read; the recent updates it reports are
\* the 10 most recent history entries of the store state its history query
\* read, and all entries when there are fewer than 10.
C15_DashboardReadOnlyCounts ==
    [][\A p \in Procs :
        (req[p].op = "dashboard" /\ Steps(p) /\ pc[p] # "idle") =>
            /\ db' = db /\ tx' = tx /\ lock' = lock
            /\ pc[p] = "dash_instances" /\ pc'[p] = "dash_updates" =>
                  LET st == Val(local'[p])
                      rows == db.customer_instances
                  IN  /\ st.instances = rows
                      /\ st.total_customers = Cardinality(rows)
                      /\ st.healthy_count =
                            Cardinality({i \in rows :
                                            i.health_status = "healthy"})
                      /\ st.outdated_count =
                            Cardinality({i \in rows : i.version # "1.0.0"})
            /\ (Answers(p) /\ Val(resp'[p]).code = 200) =>
                  LET v == Val(resp'[p])
                      st == Val(local[p])
                      len == Len(db.version_history)
                  IN  /\ v.total_customers = st.total_customers
                      /\ v.healthy_count = st.healthy_count
                      /\ v.outdated_count = st.outdated_count
                      /\ v.instances = st.instances
                      /\ Cardinality(v.recent_updates) =
                            (IF len < 10 THEN len ELSE 10)
                      /\ MostRecentOf(v.recent_updates,
                                      db.version_history)]_vars

\* a dashboard answer with 10 recent updates out of more stored entries,
\* counting two instances, one of them not healthy, one of them outdated
C15_Witness ==
    \E p \in Procs :
        /\ pc[p] = "idle" /\ req[p].op = "dashboard" /\ resp[p] # Null
        /\ Val(resp[p]).code = 200
        /\ Cardinality(Val(resp[p]).recent_updates) = 10
        /\ Len(db.version_history) > 10
        /\ Val(resp[p]).total_customers = 2
        /\ Val(resp[p]).healthy_count = 1
        /\ Val(resp[p]).outdated_count = 1
        /\ Cardinality(db.customer_instances) = 2

\* p is in a register call that found its instance with another version
\* than it supplies
ChangesVersion(p) ==
    /\ req[p].op = "register"
    /\ pc[p] \in {"reg_update", "reg_history", "reg_commit"}
    /\ local[p] # Null
    /\ Val(local[p]) # req[p].body.version

\* p's connection holds the entry of p's transition, not yet committed
EntryPending(p, d) ==
    /\ Len(d.version_history) > Len(db.version_history)
    /\ \E k \in DOMAIN d.version_history :
          /\ k > Len(db.version_history)
          /\ d.version_history[k].customer_id = req[p].body.customer_id
          /\ d.version_history[k].old_version = Val(local[p])
          /\ d.version_history[k].new_version = req[p].body.version

\* p's connection holds the supplied values in the instance row
RowUpdated(p, d) ==
    /\ InstancesOf(d, req[p].body.customer_id) # {}
    /\ \A i \in InstancesOf(d, req[p].body.customer_id) :
          HoldsSupplied(i, req[p].body)

\* C16 as claimed: when a registerInstance call changes the version of an
\* existing instance, its history entry is appended before its UPDATE of
\* the instance row runs.
C16_HistoryBeforeUpdate ==
    [][\A p \in Procs :
        (ChangesVersion(p) /\ pc[p] = "reg_update" /\ lock' = p) =>
            EntryPending(p, View(p))]_vars

\* C16 amended: when a registerInstance call changes the version of an
\* existing instance, the UPDATE of the instance row runs first, with no
\* entry appended yet; the history entry is appended after it, on the
\* updated row, in the same transaction; the committed store changes in
\* neither step, and the commit persists row and entry together.
C16_UpdateBeforeHistory ==
    [][\A p \in Procs :
        (ChangesVersion(p) /\ Steps(p)) =>
            /\ pc'[p] # "idle" => db' = db
            /\ (pc'[p] = "idle" /\ IsRegisterOk(resp'[p])) =>
                  /\ RowUpdated(p, db')
                  /\ Len(Appended) = 1
                  /\ EntryPending(p, db')
            /\ (pc[p] = "reg_update" /\ pc'[p] # "idle") =>
                  /\ pc'[p] = "reg_history"
                  /\ RowUpdated(p, tx')
                  /\ tx'.version_history = db.version_history
            /\ (pc[p] = "reg_history" /\ pc'[p] # "idle") =>
                  /\ pc'[p] = "reg_commit"
                  /\ lock = p
                  /\ RowUpdated(p, tx)
                  /\ ~EntryPending(p, tx)
                  /\ EntryPending(p, tx')
                  /\ tx'.customer_instances = tx.customer_instances]_vars

\* a call that changes acme's version has run its UPDATE and not yet its
\* history INSERT: its connection holds the new row and no new entry, the
\* committed store still holds the old version
C16_Witness ==
    \E p \in Procs :
        /\ ChangesVersion(p) /\ pc[p] = "reg_history" /\ lock = p
        /\ RowUpdated(p, tx)
        /\ tx.version_history = db.version_history
        /\ SelectVersion(db, req[p].body.customer_id) = local[p]

IsRegisterErr(r) == r # Null /\ Val(r).op = "register" /\ Val(r).code = 500

\* C17: a register call ends either with its commit and the success answer
\* or with HTTP 500; the committed store changes in no step of the call but
\* its commit, which persists all of the call's writes at once; a call
\* answered 500 leaves the committed store as it was, its connection's
\* writes are dropped with the lock, and no further attempt is started.
C17_RegisterAtomic ==
    [][\A p \in Procs :
        (req[p].op = "register" /\ Steps(p) /\ pc[p] # "idle") =>
            /\ pc'[p] = "idle" =>
                  \/ IsRegisterOk(resp'[p]) /\ pc[p] = "reg_commit"
                  \/ IsRegisterErr(resp'[p])
            /\ IsRegisterOk(resp'[p]) => db' = View(p)
            /\ ~IsRegisterOk(resp'[p]) => db' = db
            /\ IsRegisterErr(resp'[p]) =>
                  /\ lock' # p
                  /\ lock = p => tx' = db
                  /\ lock # p => tx' = tx /\ lock' = lock
                  /\ pc'[p] = "idle" /\ req' = req /\ nops' = nops]_vars

\* a call that would have changed the stored version of its customer was
\* answered with the store error: the row still holds the old version and
\* the history is empty
C17_Witness ==
    \E p \in Procs :
        /\ pc[p] = "idle" /\ req[p].op = "register"
        /\ resp[p] = Some(RegisterErr(StoreError))
        /\ lock = NoProc /\ tx = db
        /\ SelectVersion(db, req[p].body.customer_id) # Null
        /\ SelectVersion(db, req[p].body.customer_id)
              # Some(req[p].body.version)
        /\ db.version_history = <<>>

AnswersExpired(p) == resp'[p] = Some(ValidateFail(401, "LICENSE_EXPIRED"))

\* C18: a validate call that finds an active license bound to the supplied
\* customer passes its checks when expires_at is null, whatever the day,
\* and when the day is not after expires_at, the day of expires_at
\* included, and is answered LICENSE_EXPIRED when the day is after it; no
\* call is answered LICENSE_EXPIRED but for a license with an expires_at
\* before the day of the check; a call that has passed its checks is
\* answered valid=true unless a statement of the store raises.
C18_ExpiryStrict ==
    [][\A p \in Procs :
        (req[p].op = "validate" /\ Steps(p) /\ pc[p] # "idle"
            /\ ~ValidateRaised(p)) =>
            LET v == req[p].body
            IN  /\ pc[p] = "val_select" =>
                      \A l \in LicensesOfKey(db, v.license_key) :
                          (l.status = "active"
                              /\ l.customer_id = v.customer_id) =>
                              /\ l.expires_at = Null =>
                                    pc'[p] = "val_update"
                              /\ l.expires_at = Some(now) =>
                                    pc'[p] = "val_update"
                              /\ \A e \in l.expires_at :
                                    /\ now < e => pc'[p] = "val_update"
                                    /\ now > e => AnswersExpired(p)
                /\ AnswersExpired(p) =>
                      /\ pc[p] = "val_select"
                      /\ \E l \in LicensesOfKey(db, v.license_key) :
                            \E e \in l.expires_at : now > e
                /\ (pc[p] \in {"val_update", "val_commit"}
                        /\ pc'[p] = "idle") =>
                      IsValidAnswer(resp'[p])]_vars

\* a license was validated with success on the very day of its expires_at
C18_Witness ==
    \E p \in Procs :
        /\ pc[p] = "idle" /\ req[p].op = "validate"
        /\ IsValidAnswer(resp[p])
        /\ \E l \in LicensesOfKey(db, req[p].body.license_key) :
              /\ l.expires_at # Null
              /\ l.last_validated = l.expires_at
              /\ Val(resp[p]).payload =
                    Some([customer_name |-> l.customer_name, plan |-> l.plan,
                          expires_at |-> l.expires_at])

\* C19: in every state of the committed store, for every customer with a
\* history entry, the new_version of its latest entry is the version of
\* its instance row, and the old_version of each later entry is the
\* new_version of the customer's entry before it.
C19_HistoryChain ==
    \A c \in Customers :
        LET h == OfCustomer(db.version_history, c)
        IN  h # <<>> =>
               /\ SelectVersion(db, c) = Some(h[Len(h)].new_version)
               /\ \A k \in 2..Len(h) :
                     h[k].old_version = h[k - 1].new_version

\* q's last validate call, for the key, was answered LICENSE_EXPIRED or
\* LICENSE_INACTIVE
Rejected(q, key) ==
    /\ pc[q] = "idle" /\ req[q].op = "validate"
    /\ req[q].body.license_key = key
    /\ \/ resp[q] = Some(ValidateFail(401, "LICENSE_EXPIRED"))
       \/ resp[q] = Some(ValidateFail(401, "LICENSE_INACTIVE"))

\* C20: the clock never goes back and no step changes the status or the
\* expires_at of a stored license; once a validate call for a key has been
\* answered LICENSE_EXPIRED or LICENSE_INACTIVE, no validate call for that
\* key passes its checks any more, so none that starts later is answered
\* valid=true.
C20_RejectionPermanent ==
    [][/\ now' >= now
       /\ \A l \in db.licenses : \E m \in db'.licenses :
             /\ m.license_key = l.license_key
             /\ m.status = l.status
             /\ m.expires_at = l.expires_at
       /\ \A p \in Procs : \A q \in Procs \ {p} :
             (req[p].op = "validate" /\ pc[p] = "val_select" /\ Steps(p)
                 /\ Rejected(q, req[p].body.license_key)) =>
                 /\ pc'[p] = "idle"
                 /\ ~IsValidAnswer(resp'[p])]_vars

\* two calls of the license's own customer for the key of an expired
\* license have both been answered LICENSE_EXPIRED
C20_Witness ==
    /\ \A p \in Procs :
          /\ Rejected(p, "HL-0A")
          /\ resp[p] = Some(ValidateFail(401, "LICENSE_EXPIRED"))
          /\ \E l \in LicensesOfKey(db, "HL-0A") :
                /\ l.customer_id = req[p].body.customer_id
                /\ l.status = "active"
                /\ \E e \in l.expires_at : now > e

====
